---- MODULE Spec2Model ----
(***************************************************************************)
(* Model of WebBrowserApp/client.py: the socket client (WebBrowserModel)   *)
(* and the handler that drives it (WebBrowserView.search_address).         *)
(*                                                                         *)
(* Text is a sequence of one-character strings.  Bytes are a sequence of   *)
(* one-byte strings: an ASCII byte is written as its character, the two    *)
(* bytes of the UTF-8 encoding of a non-ASCII character as B1 and B2.      *)
(* Exceptions are named by their Python class.  view._controller is the    *)
(* WebBrowserModel itself (client.py:219), so the view's calls go straight *)
(* to the model's methods.                                                 *)
(***************************************************************************)
EXTENDS Integers, Sequences, FiniteSets

\* ---------------------------------------------------------------- bounds
MaxConnects == 2     \* connect_to_server calls (sockets created) in one run
MaxSlashes == 2      \* '/' separators in a typed address
MaxRespTokens == 2   \* pieces a short server response is assembled from
MaxFirstSeg == 3     \* longest partial first TCP segment that is enumerated
MaxShort == 1        \* bytes by which send() may fall short of the request
PadSlack == 0        \* how far around the buffer edge long responses put the marker

\* ------------------------------------------------------- program constants
BUFSIZE == 4096      \* client_socket.recv(4096)
SchemeLen == 7       \* address_input[7:]

\* ------------------------------------------------------------- characters
NonAscii == "eacute"                 \* one non-ASCII character of text
B1 == "0xC3"                         \* first byte of its UTF-8 encoding
B2 == "0xA9"                         \* second byte of its UTF-8 encoding
Marker == <<"<", "h", "t", "m", "l", ">">>
Scheme == <<"h", "t", "t", "p", ":", "/", "/">>
NoText == <<>>

SocketError == "socket.error"
ValueError == "ValueError"
UnicodeDecodeError == "UnicodeDecodeError"
NoExc == "none"

Min(a, b) == IF a < b THEN a ELSE b

\* s[from:] of Python (from is a 0-based offset)
Drop(s, from) == SubSeq(s, from + 1, Len(s))

\* sub starts at (1-based) position i of s
MatchAt(s, sub, i) == \A j \in 1..Len(sub) : s[i + j - 1] = sub[j]

\* positions at which sub occurs in s
Occurrences(s, sub) == {i \in 1..(Len(s) - Len(sub) + 1) : MatchAt(s, sub, i)}

\* `sub in s` of Python
Contains(s, sub) == Occurrences(s, sub) # {}

\* ------------------------------------------------------ str.encode/decode
\* str.encode(): UTF-8, one byte per ASCII character, two for the non-ASCII one
EncodeChar(c) == IF c = NonAscii THEN <<B1, B2>> ELSE <<c>>

RECURSIVE Encode(_)
Encode(t) == IF t = <<>> THEN <<>> ELSE EncodeChar(Head(t)) \o Encode(Tail(t))

\* bytes.decode() succeeds iff every lead byte is followed by its continuation
\* byte and every continuation byte follows a lead byte
Decodable(b) ==
    \A i \in 1..Len(b) :
        /\ b[i] = B1 => (i < Len(b) /\ b[i + 1] = B2)
        /\ b[i] = B2 => (i > 1 /\ b[i - 1] = B1)

NotContinuation(x) == x # B2

\* the decoded text of a decodable byte string
Decode(b) ==
    LET lead == SelectSeq(b, NotContinuation)
        text == [i \in 1..Len(lead) |-> IF lead[i] = B1 THEN NonAscii ELSE lead[i]]
    IN  SubSeq(text, 1, Len(lead))

\* ---------------------------------------------------------------- str.split
\* the k-th smallest of the positions occ
Nth(occ, k) == CHOOSE i \in occ : Cardinality({j \in occ : j < i}) = k - 1

\* s.split(sep): the pieces between the occurrences of sep.  Neither
\* separator of this program ('/' and '<html>') can overlap itself, so the
\* occurrences str.split cuts at are all the occurrences.
Split(s, sep) ==
    LET occ == Occurrences(s, sep)
        n == Cardinality(occ)
        from(k) == IF k = 1 THEN 1 ELSE Nth(occ, k - 1) + Len(sep)
        to(k) == IF k = n + 1 THEN Len(s) ELSE Nth(occ, k) - 1
    IN  [k \in 1..(n + 1) |-> SubSeq(s, from(k), to(k))]

\* ------------------------------------------------------------ environment
RECURSIVE Paths(_)
\* the paths with at most n '/' separators and one-character segments, the
\* last segment possibly empty: "", "/", "/a", "/a/", "/a/a", ...
Paths(n) ==
    IF n = 0 THEN {<<>>}
    ELSE {<<>>, <<"/">>}
         \cup {<<"/", "a">> \o p : p \in Paths(n - 1)}

\* the hosts a caller names: none, an ASCII one, a non-ASCII one
Hosts == {<<>>, <<"a">>, <<NonAscii>>}

\* what the user can have typed in the address bar: a host (or none) and a
\* path, the same behind the scheme, and a host whose path holds the scheme
Addresses ==
    LET typed == {host \o path : host \in Hosts, path \in Paths(MaxSlashes)}
    IN  typed \cup {Scheme \o t : t \in typed} \cup {<<"a", "/">> \o Scheme}

Pad(n) == [i \in 1..n |-> "H"]

RespTokens == {<<"H">>, Marker, <<B1, B2>>}

RECURSIVE Concats(_)
\* the byte strings assembled from at most n tokens
Concats(n) ==
    IF n = 0 THEN {<<>>}
    ELSE LET shorter == Concats(n - 1)
         IN  shorter \cup {s \o t : s \in shorter, t \in RespTokens}

\* what the server can answer: short answers (with none, one or several
\* markers, with non-ASCII text, or cut inside a character), and answers
\* longer than the receive buffer with the marker at the start or at the
\* buffer's edge
Responses ==
    Concats(MaxRespTokens)
    \cup {<<"H", B1>>}
    \cup {Marker \o Pad(BUFSIZE + d) : d \in 0..PadSlack}
    \cup {Pad(BUFSIZE - Len(Marker) - d) \o Marker \o <<"H">> : d \in 0..PadSlack}
    \cup {Pad(BUFSIZE - 1 - d) \o Marker : d \in 0..PadSlack}

\* how many bytes of resp can have arrived when the blocking recv returns:
\* all of them (none when the peer closed without writing), or a short first
\* segment
Arrived(resp) == {Len(resp)} \cup {n \in 1..MaxFirstSeg : n <= Len(resp)}

\* the byte counts send() can accept of a request of n bytes
SendSizes(n) == {k \in 1..n : n - k <= MaxShort}

\* ------------------------------------------------------------------ state
\* A socket is "unconnected" (created, connect failed), "open" (connected),
\* "reset" (connected, then reset by the peer) or "closed" (close() called).
VARIABLES
    pc,                \* where search_address stands: "idle", "send", "recv"
    address_input,     \* local of search_address: the text of the address bar
    server_address,    \* local of search_address
    resource_url,      \* local of search_address
    request_message,   \* local of search_address
    socks,             \* every socket created, in order: its status
    client_socket,     \* view.client_socket: index into socks, 0 when unset
    connects,          \* connect() calls made by the last search
    sends,             \* send() calls made by the last search
    reads,             \* recv() calls made by the last search
    unsent,            \* request bytes the last send() did not accept
    response_message,  \* the bytes the last recv() returned
    inbox,             \* bytes the peer wrote that the last search did not read
    fault,             \* the socket call that failed in the last search
    ret,               \* how the last send_request ended
    branch,            \* how the last search_address ended
    closeOn,           \* status of the socket close_connection was last called on
    closeResult        \* how close_connection last ended

vars == <<pc, address_input, server_address, resource_url,
          request_message, socks, client_socket, connects, sends, reads,
          unsent, response_message, inbox, fault, ret, branch,
          closeOn, closeResult>>

locals == <<address_input, server_address, resource_url, request_message>>

closeVars == <<closeOn, closeResult>>

NoReturn == [kind |-> "none", val |-> NoText, exc |-> NoExc]
Return(v) == [kind |-> "return", val |-> v, exc |-> NoExc]
Raise(e) == [kind |-> "raise", val |-> NoText, exc |-> e]

Init ==
    /\ pc = "idle"
    /\ address_input = NoText
    /\ server_address = NoText
    /\ resource_url = NoText
    /\ request_message = NoText
    /\ socks = <<>>
    /\ client_socket = 0
    /\ connects = 0
    /\ sends = 0
    /\ reads = 0
    /\ unsent = <<>>
    /\ response_message = <<>>
    /\ inbox = <<>>
    /\ fault = "none"
    /\ ret = NoReturn
    /\ branch = "none"
    /\ closeOn = "none"
    /\ closeResult = "none"

\* ------------------------------------------------------- search_address
\* lines 127-139: the host and the resource path taken from the address
ParseAddress(addr) ==
    LET stripped == IF Contains(addr, Scheme) THEN Drop(addr, SchemeLen) ELSE addr
        splitted_search == Split(stripped, <<"/">>)
    IN  IF Len(splitted_search) = 1
        THEN [server_address |-> splitted_search[1], resource_url |-> NoText]
        ELSE IF Len(splitted_search) = 2
        THEN [server_address |-> splitted_search[1],
              resource_url |-> splitted_search[2]]
        ELSE [server_address |-> NoText, resource_url |-> NoText]

\* BuildRequest with bare line feeds for line ends
BuildRequestLF(host, path) ==
    <<"G", "E", "T", " ", "/">> \o path
    \o <<" ", "H", "T", "T", "P", "/", "1", ".", "1", "\n">>
    \o <<"H", "o", "s", "t", ":", " ">> \o host
    \o <<"\n", "\n">>

\* line 144: the request message
BuildRequest(host, path) ==
    <<"G", "E", "T", " ", "/">> \o path
    \o <<" ", "H", "T", "T", "P", "/", "1", ".", "1", "\r", "\n">>
    \o <<"H", "o", "s", "t", ":", " ">> \o host
    \o <<"\r", "\n", "\r", "\n">>

\* `except socket.error` of search_address (lines 142-154): what the handler
\* does with the exception exc that its try block ended with
SearchOutcome(exc) ==
    IF exc = NoExc THEN "page"
    ELSE IF exc = SocketError THEN "error_page"
    ELSE "escaped"

\* SendRequestOutcome without the except clause
SendRequestOutcomeNoHandler(exc, val) ==
    IF exc = NoExc THEN Return(val) ELSE Raise(exc)

\* `except socket.error` of send_request (lines 64-84): what send_request
\* does when its try block ended with exc, or with the value val
SendRequestOutcome(exc, val) ==
    IF exc = NoExc THEN Return(val)
    ELSE IF exc = SocketError THEN Return(NoText)
    ELSE Raise(exc)

\* the exception a call that ended as r leaves its caller with
ExcOf(r) == IF r.kind = "raise" THEN r.exc ELSE NoExc

\* lines 75-82: decode the received bytes, cut at the marker, put it back
SplitBody(bytes) ==
    IF ~Decodable(bytes) THEN Raise(UnicodeDecodeError)
    ELSE LET parts == Split(Decode(bytes), Marker)
         IN  IF Len(parts) # 2 THEN Raise(ValueError)
             ELSE Return(Marker \o parts[2])

\* Recv reading until everything that arrived is consumed
RecvAll(stream, avail) == SubSeq(stream, 1, avail)

\* line 72: one recv of at most BUFSIZE bytes, of which avail have arrived
Recv(stream, avail) == SubSeq(stream, 1, Min(avail, BUFSIZE))

\* ConnectToServer trying a second time when the first attempt fails
ConnectToServerRetry(ok) ==
    [status |-> IF ok THEN "open" ELSE "unconnected",
     attempts |-> IF ok THEN 1 ELSE 2,
     exc |-> IF ok THEN NoExc ELSE SocketError]

\* lines 26-30: a socket is created and connected, once
ConnectToServer(ok) ==
    [status |-> IF ok THEN "open" ELSE "unconnected",
     attempts |-> 1,
     exc |-> IF ok THEN NoExc ELSE SocketError]

\* the user presses the button with addr in the address bar; the connection
\* is made or refused (lines 124-144, and 151-154 when it is refused)
SearchAddress(addr, ok) ==
    LET parsed == ParseAddress(addr)
        conn == ConnectToServer(ok)
    IN  /\ pc = "idle"
        /\ Len(socks) < MaxConnects
        /\ socks' = Append(socks, conn.status)
        /\ connects' = conn.attempts
        /\ sends' = 0
        /\ reads' = 0
        /\ unsent' = <<>>
        /\ response_message' = <<>>
        /\ inbox' = <<>>
        /\ ret' = NoReturn
        /\ IF conn.exc = NoExc
           THEN /\ client_socket' = Len(socks) + 1
                /\ address_input' = addr
                /\ server_address' = parsed.server_address
                /\ resource_url' = parsed.resource_url
                /\ request_message' =
                       BuildRequest(parsed.server_address, parsed.resource_url)
                /\ fault' = "none"
                /\ branch' = "none"
                /\ pc' = "send"
           ELSE /\ client_socket' = client_socket
                /\ address_input' = NoText
                /\ server_address' = NoText
                /\ resource_url' = NoText
                /\ request_message' = NoText
                /\ fault' = "connect"
                /\ branch' = SearchOutcome(conn.exc)
                /\ pc' = "idle"
        /\ UNCHANGED closeVars

\* search_address returns: its locals are gone
ClearLocals ==
    /\ address_input' = NoText
    /\ server_address' = NoText
    /\ resource_url' = NoText
    /\ request_message' = NoText

\* line 69: send() accepts n bytes of the encoded request (line 66)
SendOk(n) ==
    /\ pc = "send"
    /\ n \in SendSizes(Len(Encode(request_message)))
    /\ sends' = sends + 1
    /\ unsent' = Drop(Encode(request_message), n)
    /\ pc' = "recv"
    /\ UNCHANGED <<locals, socks, client_socket, connects, reads,
                   response_message, inbox, fault, ret, branch, closeVars>>

\* line 69 fails with a socket error; lines 83-84 and 150 follow
SendFail ==
    /\ pc = "send"
    /\ sends' = sends + 1
    /\ fault' = "send"
    /\ ret' = SendRequestOutcome(SocketError, NoText)
    /\ branch' = SearchOutcome(ExcOf(ret'))
    /\ pc' = "idle"
    /\ ClearLocals
    /\ UNCHANGED <<socks, client_socket, connects, reads,
                   unsent, response_message, inbox, closeVars>>

\* line 72 returns what arrived of the bytes resp the peer wrote (nothing
\* when the peer closed without writing); lines 75-82 and 150 follow
RecvOk(resp, avail) ==
    /\ pc = "recv"
    /\ reads' = reads + 1
    /\ response_message' = Recv(resp, avail)
    /\ inbox' = Drop(resp, Len(response_message'))
    /\ LET body == SplitBody(response_message')
       IN  ret' = SendRequestOutcome(ExcOf(body), body.val)
    /\ branch' = SearchOutcome(ExcOf(ret'))
    /\ pc' = "idle"
    /\ ClearLocals
    /\ UNCHANGED <<socks, client_socket, connects, sends,
                   unsent, fault, closeVars>>

\* line 72 fails with a socket error; lines 83-84 and 150 follow
RecvFail ==
    /\ pc = "recv"
    /\ reads' = reads + 1
    /\ fault' = "recv"
    /\ ret' = SendRequestOutcome(SocketError, NoText)
    /\ branch' = SearchOutcome(ExcOf(ret'))
    /\ pc' = "idle"
    /\ ClearLocals
    /\ UNCHANGED <<socks, client_socket, connects, sends,
                   unsent, response_message, inbox, closeVars>>

Next ==
    \/ \E addr \in Addresses, ok \in BOOLEAN : SearchAddress(addr, ok)
    \/ \E n \in 1..(Len(Encode(request_message))) : SendOk(n)
    \/ SendFail
    \/ \E resp \in Responses : \E avail \in Arrived(resp) : RecvOk(resp, avail)
    \/ RecvFail

Spec == Init /\ [][Next]_vars

\* ------------------------------------------------------ close_connection
\* line 44: getpeername() raises on a socket that is not connected or is
\* closed; on a socket the peer has reset it raises or not with the platform
GetPeerName(status, resetRaises) ==
    IF status \in {"unconnected", "closed"} \/ (status = "reset" /\ resetRaises)
    THEN SocketError
    ELSE NoExc

\* CloseOutcome without the except clause
CloseOutcomeNoHandler(exc) == IF exc = NoExc THEN "closed" ELSE "raised"

\* `except socket.error` of close_connection (lines 42-50)
CloseOutcome(exc) ==
    IF exc = NoExc THEN "closed"
    ELSE IF exc = SocketError THEN "logged"
    ELSE "raised"

\* a caller of the model passes socket s to close_connection (lines 33-50)
CloseConnection(s, resetRaises) ==
    LET exc == GetPeerName(socks[s], resetRaises)
    IN  /\ pc = "idle"
        /\ s \in DOMAIN socks
        /\ closeOn' = socks[s]
        /\ closeResult' = CloseOutcome(exc)
        /\ socks' = IF exc = NoExc THEN [socks EXCEPT ![s] = "closed"] ELSE socks
        /\ UNCHANGED <<pc, locals, client_socket, connects, sends,
                       reads, unsent, response_message, inbox, fault, ret, branch>>

\* the peer resets the connection of socket s
PeerReset(s) ==
    /\ pc = "idle"
    /\ s \in DOMAIN socks
    /\ socks[s] = "open"
    /\ socks' = [socks EXCEPT ![s] = "reset"]
    /\ UNCHANGED <<pc, locals, client_socket, connects, sends, reads,
                   unsent, response_message, inbox, fault, ret, branch, closeVars>>

\* a caller of the model calls connect_to_server(host) (lines 14-30); the
\* socket is returned to it, or the socket error of connect() is raised
ApiConnect(host, ok) ==
    LET conn == ConnectToServer(ok)
    IN  /\ pc = "idle"
        /\ Len(socks) < MaxConnects
        /\ socks' = Append(socks, conn.status)
        /\ client_socket' = IF conn.exc = NoExc THEN Len(socks) + 1 ELSE client_socket
        /\ server_address' = host
        /\ connects' = conn.attempts
        /\ fault' = IF conn.exc = NoExc THEN "none" ELSE "connect"
        /\ UNCHANGED <<pc, address_input, resource_url, request_message, sends,
                       reads, unsent, response_message, inbox, ret, branch,
                       closeVars>>

\* a caller of WebBrowserModel that connects sockets and closes them, in any
\* order and any number of times
NextApi ==
    \/ \E host \in Hosts, ok \in BOOLEAN : ApiConnect(host, ok)
    \/ \E s \in DOMAIN socks, resetRaises \in BOOLEAN : CloseConnection(s, resetRaises)
    \/ \E s \in DOMAIN socks : PeerReset(s)

SpecApi == Init /\ [][NextApi]_vars

\* ================================================================ claims
IsPrefix(p, s) == Len(p) <= Len(s) /\ SubSeq(s, 1, Len(p)) = p
IsSuffix(t, s) == Len(t) <= Len(s) /\ SubSeq(s, Len(s) - Len(t) + 1, Len(s)) = t

\* the decoded text of the bytes the last search received
Received == Decode(response_message)

\* the last search received bytes without a transport failure
ReadDone == pc = "idle" /\ reads = 1 /\ fault = "none"

\* C1: once the connection is made, the request message is 'GET /', the
\* resource path, ' HTTP/1.1\r\nHost: ', the host and '\r\n\r\n', in this
\* order and with nothing else
C1_RequestExact ==
    pc \in {"send", "recv"} =>
        LET m == request_message
            lp == Len(resource_url)
            lh == Len(server_address)
        IN  /\ Len(m) = 5 + lp + 17 + lh + 4
            /\ SubSeq(m, 1, 5) = <<"G", "E", "T", " ", "/">>
            /\ SubSeq(m, 6, 5 + lp) = resource_url
            /\ SubSeq(m, 6 + lp, 22 + lp) =
                   <<" ", "H", "T", "T", "P", "/", "1", ".", "1", "\r", "\n",
                     "H", "o", "s", "t", ":", " ">>
            /\ SubSeq(m, 23 + lp, 22 + lp + lh) = server_address
            /\ SubSeq(m, 23 + lp + lh, Len(m)) = <<"\r", "\n", "\r", "\n">>

\* C1 witness: a request built for a non-empty host and the empty path
C1_Witness ==
    /\ pc = "send"
    /\ server_address # NoText
    /\ resource_url = NoText
    /\ request_message # NoText

\* C2 (as claimed): whenever the received text holds the marker, send_request
\* returns the text from the first marker to the end
C2_SplitRoundTrip ==
    (ReadDone /\ Decodable(response_message) /\ Contains(Received, Marker)) =>
        ret = Return(Drop(Received, Nth(Occurrences(Received, Marker), 1) - 1))

\* C3 (as claimed): a received text that cannot be decoded or holds no marker
\* ends search_address in its error-page branch
C3_MalformedCaught ==
    (ReadDone /\ (~Decodable(response_message) \/ ~Contains(Received, Marker))) =>
        branch = "error_page"

\* C4 (as claimed): once a search has finished, no socket is left open
C4_AllClosed ==
    pc = "idle" => \A s \in DOMAIN socks : socks[s] # "open"

\* C5: a search reads once, at most BUFSIZE bytes; what it returns is the
\* tail of the text of these bytes, and bytes left unread make no failure
C5_SingleBoundedRead ==
    /\ reads <= 1
    /\ Len(response_message) <= BUFSIZE
    /\ (ReadDone /\ ret.kind = "return") =>
           /\ ret.val # NoText
           /\ IsSuffix(ret.val, Received)
    /\ ReadDone => ret.exc # SocketError

\* C5 witness: a response longer than the buffer, read once, a body returned
\* and the rest left unread
C5_Witness ==
    /\ ReadDone
    /\ Len(response_message) = BUFSIZE
    /\ inbox # <<>>
    /\ ret.kind = "return"
    /\ Len(ret.val) > Len(Marker)

\* C6 (as claimed): when the read is issued, no byte of the request is unsent
C6_AllSentBeforeRead ==
    (pc = "recv" \/ reads > 0) => unsent = <<>>

\* C7: after a failed send or recv, send_request has returned the empty
\* string; and whatever non-empty string it returns begins with the marker
C7_TransportErrorEmpty ==
    /\ fault \in {"send", "recv"} => ret = Return(NoText)
    /\ (ret.kind = "return" /\ ret.val # NoText) => IsPrefix(Marker, ret.val)

\* C7 witness: a recv that failed, and the empty string returned
C7_Witness ==
    /\ fault = "recv"
    /\ reads = 1
    /\ ret = Return(NoText)
    /\ branch = "page"

C9_CloseNeverRaises ==
    closeOn \in {"unconnected", "reset", "closed"} => closeResult \in {"logged", "closed"}

\* C9 witness: close_connection called on a socket it had already closed
C9_Witness ==
    /\ closeOn = "closed"
    /\ closeResult = "logged"

\* the host and the path of an address as the input contract has them: the
\* leading scheme removed, the host up to the first '/', the path after it
Unschemed(addr) == IF IsPrefix(Scheme, addr) THEN Drop(addr, Len(Scheme)) ELSE addr
FirstSlash(addr) ==
    IF Contains(addr, <<"/">>) THEN Nth(Occurrences(addr, <<"/">>), 1) ELSE Len(addr) + 1
HostPart(addr) == SubSeq(Unschemed(addr), 1, FirstSlash(Unschemed(addr)) - 1)
PathPart(addr) == Drop(Unschemed(addr), FirstSlash(Unschemed(addr)))

\* C10 (as claimed): for an address with a non-empty host part, the
\* connection is made to that host part, which is not empty, with the text
\* after the first '/' as the resource path
C10_HostContract ==
    (pc \in {"send", "recv"} /\ HostPart(address_input) # NoText) =>
        /\ server_address # NoText
        /\ server_address = HostPart(address_input)
        /\ resource_url = PathPart(address_input)
====
